---- MODULE Spec2Model ----
(***************************************************************************)
(* Model of the VitalEvent document-intelligence pipeline:                 *)
(*   - the AI service registry   (backend/src/services/ai, registry part)  *)
(*   - the OCR service           (OCRService)                              *)
(*   - the OpenAI service        (OpenAIService)                           *)
(*   - the AI routes             (/ocr /analyze /fraud-detection /classify *)
(*                                /validate /batch-process /history        *)
(*                                /health)                                 *)
(* Spec        : the server; it handles one request at a time, a batch     *)
(*               request advancing one file per step.                      *)
(* SpecHistory : GET /history over a table that already holds rows.        *)
(* SpecOcr     : the OCRService called by concurrent callers, one await    *)
(*               per step.                                                 *)
(* SpecFn      : the engines' pure methods applied to their arguments.     *)
(***************************************************************************)
EXTENDS Integers, Sequences, FiniteSets, TLC

\* ---------------------------------------------------------------- bounds
\* most files in one batch request (multer allows up to 10)
MaxFiles == 2
\* most regions in one /ocr request
MaxRegions == 2
MaxRows == 2
MaxCalls == 2
MaxStored == 3
MaxWords == 3
MaxChars == 4

\* ------------------------------------------------------------- JS values
NULL == "null"
Undefined == [t |-> "undefined"]
Null == [t |-> "null"]
Str(toks) == [t |-> "string", s |-> toks]

\* A model response as a sequence of lexical tokens; "word" is any run of
\* characters that is not a JSON token (prose, a markdown fence, ...).
Texts ==
  { <<>>,                                   \* empty string
    <<"word">>,                             \* "not json"
    <<"null">>,                             \* the literal null
    <<"str">>,                              \* a JSON string
    <<"{", "}">>,                           \* {}
    <<"{", "str", ":", "null", "}">>,       \* {"k": null}
    <<"{", "str", ":", "{", "}", "}">>,     \* {"k": {}}
    <<"{", "str", ":">>,                    \* truncated object
    <<"word", "{", "}">>,                   \* prose, then JSON
    <<"{", "}", "word">> }                  \* JSON, then prose

\* what response.choices[0]?.message?.content can be
Contents == {Undefined, Null} \cup {Str(s) : s \in Texts}

\* ------------------------------------------------------------ JSON.parse
\* JSON.parse first converts its argument to a string (JS ToString): undefined
\* becomes the text undefined (a bare word), null becomes the text null.
JSToString(content) ==
  CASE content.t = "undefined" -> <<"word">>
    [] content.t = "null"      -> <<"null">>
    [] OTHER                   -> content.s

\* A token that is not punctuation, a literal or a bare word is a JSON
\* string, named by its text ("str" is some string of no interest).
IsString(tok) == tok \notin {"{", "}", ":", ",", "null", "true", "false", "word"}

\* value := null | true | false | string | { } | { members }
\* members := string : value | string : value , members
\* ParseValue(t, i) is the index just after the value starting at i, or 0;
\* ParseMembers(t, i) the index just after the } that closes the members
\* starting at i, or 0.
RECURSIVE ParseValue(_, _)
RECURSIVE ParseMembers(_, _)
ParseValue(t, i) ==
  IF i > Len(t) THEN 0
  ELSE IF t[i] \in {"null", "true", "false"} \/ IsString(t[i]) THEN i + 1
  ELSE IF t[i] = "{" THEN
         IF i + 1 <= Len(t) /\ t[i + 1] = "}" THEN i + 2 ELSE ParseMembers(t, i + 1)
  ELSE 0

ParseMembers(t, i) ==
  IF i + 1 <= Len(t) /\ IsString(t[i]) /\ t[i + 1] = ":"
  THEN LET j == ParseValue(t, i + 2)
       IN  IF j = 0 \/ j > Len(t) THEN 0
           ELSE IF t[j] = "}" THEN j + 1
           ELSE IF t[j] = "," THEN ParseMembers(t, j + 1)
           ELSE 0
  ELSE 0

JSONValid(text) == ParseValue(text, 1) = Len(text) + 1

\* the JS value a valid text denotes
JSONValue(text) ==
  CASE text[1] = "null"              -> Null
    [] text[1] \in {"true", "false"} -> [t |-> "boolean", src |-> text]
    [] IsString(text[1])             -> [t |-> "jsstring"]
    [] OTHER                         -> [t |-> "object", src |-> text]

\* JSON.parse(x): a value, or a SyntaxError
JSONParse(content) ==
  LET text == JSToString(content)
  IN  IF JSONValid(text) THEN [threw |-> FALSE, value |-> JSONValue(text)]
      ELSE [threw |-> TRUE]

\* ------------------------------------------------- OpenAIService: parsers
Now == "ts"
ParseError == "Failed to parse AI response"

ParseDocumentAnalysis(analysis, documentType) ==
  LET parsed == JSONParse(analysis)
  IN  IF ~parsed.threw
      THEN [success |-> TRUE, data |-> parsed.value, documentType |-> documentType,
            timestamp |-> Now]
      ELSE [success |-> FALSE, error |-> ParseError, rawResponse |-> analysis,
            timestamp |-> Now]

ParseFraudDetection(fraudAnalysis) ==
  LET parsed == JSONParse(fraudAnalysis)
  IN  IF ~parsed.threw
      THEN [success |-> TRUE, data |-> parsed.value, timestamp |-> Now]
      ELSE [success |-> FALSE, error |-> ParseError, rawResponse |-> fraudAnalysis,
            timestamp |-> Now]

\* (variant: the failure result loses the raw response)
ParseClassificationDropsRaw(classification) ==
  LET parsed == JSONParse(classification)
  IN  IF ~parsed.threw
      THEN [success |-> TRUE, data |-> parsed.value, timestamp |-> Now]
      ELSE [success |-> FALSE, error |-> ParseError, timestamp |-> Now]

ParseClassification(classification) ==
  LET parsed == JSONParse(classification)
  IN  IF ~parsed.threw
      THEN [success |-> TRUE, data |-> parsed.value, timestamp |-> Now]
      ELSE [success |-> FALSE, error |-> ParseError, rawResponse |-> classification,
            timestamp |-> Now]

ParseValidation(validation) ==
  LET parsed == JSONParse(validation)
  IN  IF ~parsed.threw
      THEN [success |-> TRUE, data |-> parsed.value, timestamp |-> Now]
      ELSE [success |-> FALSE, error |-> ParseError, rawResponse |-> validation,
            timestamp |-> Now]

\* ---------------------------------------------- OpenAIService: operations
\* What client.chat.completions.create can do: reject (transport error,
\* timeout, auth) or resolve with some content.
ModelOutcomes == {[threw |-> TRUE]} \cup {[threw |-> FALSE, content |-> c] : c \in Contents}

Thrown(msg, calls) == [threw |-> TRUE, error |-> msg, modelCalls |-> calls]
Returned(r, content, calls) ==
  [threw |-> FALSE, result |-> r, content |-> content, modelCalls |-> calls]
ClientError == "OpenAI client not initialized"
TransportError == "model call failed"

\* (variant: a rejected model call is issued a second time before giving up)
AnalyzeDocumentRetrying(clientv, outcome, documentType) ==
  IF clientv = NULL THEN Thrown(ClientError, 0)
  ELSE IF outcome.threw THEN Thrown(TransportError, 2)
  ELSE Returned(ParseDocumentAnalysis(outcome.content, documentType), outcome.content, 1)

\* Each operation: try { check client; call the model; parse } catch { throw }
AnalyzeDocument(clientv, outcome, documentType) ==
  IF clientv = NULL THEN Thrown(ClientError, 0)
  ELSE IF outcome.threw THEN Thrown(TransportError, 1)
  ELSE Returned(ParseDocumentAnalysis(outcome.content, documentType), outcome.content, 1)

DetectFraud(clientv, outcome) ==
  IF clientv = NULL THEN Thrown(ClientError, 0)
  ELSE IF outcome.threw THEN Thrown(TransportError, 1)
  ELSE Returned(ParseFraudDetection(outcome.content), outcome.content, 1)

ClassifyRecord(clientv, outcome) ==
  IF clientv = NULL THEN Thrown(ClientError, 0)
  ELSE IF outcome.threw THEN Thrown(TransportError, 1)
  ELSE Returned(ParseClassification(outcome.content), outcome.content, 1)

ValidateData(clientv, outcome) ==
  IF clientv = NULL THEN Thrown(ClientError, 0)
  ELSE IF outcome.threw THEN Thrown(TransportError, 1)
  ELSE Returned(ParseValidation(outcome.content), outcome.content, 1)

\* healthCheck: true iff the test call returns truthy content; never throws
OpenAIHealthCheck(clientv, outcome) ==
  IF clientv = NULL THEN FALSE
  ELSE IF outcome.threw THEN FALSE
  ELSE outcome.content.t = "string" /\ outcome.content.s # <<>>

\* ================================================================ state
VARIABLES
  env,                      \* process.env: the configuration read at start
  phase,                    \* "boot", "serving" or "exited" (process.exit)
  initResult,               \* initializeAIServices: "notrun", "returned", "threw"
  openaiService, ocrService, documentAnalysisService,
  fraudDetectionService, classificationService, verificationService,
  client,                   \* OpenAIService.client
  worker, isInitialized, defaultLanguage,   \* OCRService fields
  workerLanguage,           \* the language the Tesseract worker has loaded
  batch,                    \* the batch request being processed, or NoBatch
  last,                     \* the response to the most recent request
  ai_analyses,              \* the ai_analyses table, in insertion order
  calls                     \* invocations made on the OCR service directly

registry == <<openaiService, ocrService, documentAnalysisService,
              fraudDetectionService, classificationService, verificationService>>
ocrFields == <<worker, isInitialized, defaultLanguage, workerLanguage>>
server == <<env, phase, initResult, registry, client>>
vars == <<env, phase, initResult, registry, client, ocrFields, batch, last, ai_analyses,
          calls>>

Languages == {"eng", "amh"}
Features == {"openai", "ocr", "documentAnalysis", "fraudDetection",
             "classification", "verification"}

Envs == [ENABLE_AI_FEATURES : BOOLEAN, OPENAI_API_KEY : BOOLEAN,
         ENABLE_OCR_PROCESSING : BOOLEAN, ENABLE_DOCUMENT_ANALYSIS : BOOLEAN,
         ENABLE_FRAUD_DETECTION : BOOLEAN, ENABLE_AUTOMATIC_CLASSIFICATION : BOOLEAN]

NoBatch == [active |-> FALSE]
NoResponse == [route |-> "none"]
NotCalled == [pc |-> "idle"]

\* ------------------------------------------------------------ OCRService
\* How Tesseract answers OCRService.initialize
WorkerStarts == {"ok", "createFails", "loadFails"}

\* OCRService.initialize: createWorker, loadLanguage, initialize, then
\* isInitialized = true; any failure is logged and rethrown.
OCRInitialize(start) ==
  CASE start = "createFails" ->
         [threw |-> TRUE, worker |-> NULL, isInitialized |-> FALSE]
    [] start = "loadFails" ->
         [threw |-> TRUE, worker |-> "worker", isInitialized |-> FALSE]
    [] OTHER ->
         [threw |-> FALSE, worker |-> "worker", isInitialized |-> TRUE]

\* How the worker answers one extraction
OcrOutcomes == {"ok", "loadFails", "recognizeFails"}

OcrFailure(msg, loaded, recognized) ==
  [result |-> [success |-> FALSE, error |-> msg, timestamp |-> Now],
   loaded |-> loaded, recognizeCalls |-> recognized]

\* extractTextFromImage(imagePath, {language}): the result object and the
\* language the worker has loaded afterwards.  Never throws.
ExtractTextFromImage(fileExists, optLanguage, o) ==
  IF ~isInitialized THEN OcrFailure("OCR service not initialized", workerLanguage, 0)
  ELSE IF ~fileExists THEN OcrFailure("ENOENT", workerLanguage, 0)
  ELSE LET language == IF optLanguage # NULL THEN optLanguage ELSE defaultLanguage
           reload   == language # defaultLanguage
       IN  IF reload /\ o = "loadFails"
           THEN OcrFailure("language load failed", workerLanguage, 0)
           ELSE LET loaded == IF reload THEN language ELSE workerLanguage
                IN  IF o = "recognizeFails"
                    THEN OcrFailure("recognize failed", loaded, 1)
                    ELSE [result |-> [success |-> TRUE, text |-> "text",
                                      language |-> language, timestamp |-> Now],
                          loaded |-> loaded, recognizeCalls |-> 1]

\* extractTextFromRegions(imagePath, regions, options): one recognize per
\* region inside a single try/catch; failAt = 0 means no region fails.
ExtractTextFromRegions(numRegions, failAt) ==
  IF ~isInitialized THEN OcrFailure("OCR service not initialized", workerLanguage, 0)
  ELSE IF failAt > 0 THEN OcrFailure("recognize failed", workerLanguage, failAt)
  ELSE [result |-> [success |-> TRUE,
                    results |-> [r \in 1..numRegions |-> [region |-> r, text |-> "text"]],
                    timestamp |-> Now],
        loaded |-> workerLanguage, recognizeCalls |-> numRegions]

\* (variant: healthCheck without its isInitialized / worker guard)
OCRHealthCheckUnguarded(o) == o # "recognizeFails"

\* healthCheck: false unless initialized and a test recognize succeeds
OCRHealthCheck(o) ==
  IF ~isInitialized \/ worker = NULL THEN FALSE
  ELSE o # "recognizeFails"

\* -------------------------------------------------------------- registry
\* The process at module load, whatever the database holds
Boot ==
  /\ env \in Envs
  /\ phase = "boot"
  /\ initResult = "notrun"
  /\ openaiService = NULL /\ ocrService = NULL /\ documentAnalysisService = NULL
  /\ fraudDetectionService = NULL /\ classificationService = NULL
  /\ verificationService = NULL
  /\ client = NULL
  /\ worker = NULL /\ isInitialized = FALSE /\ defaultLanguage = "eng"
  /\ workerLanguage = NULL
  /\ batch = NoBatch
  /\ last = NoResponse

\* ... over an empty ai_analyses table, no method invoked yet
Init ==
  /\ Boot
  /\ ai_analyses = <<>>
  /\ calls = [c \in 1..MaxCalls |-> NotCalled]

\* OpenAIService.initialize: throws without an API key, else creates the client
OpenAIInitialize(key) ==
  IF ~key THEN [threw |-> TRUE, client |-> NULL]
  ELSE [threw |-> FALSE, client |-> "client"]

\* initializeAIServices: each instance is assigned BEFORE its initialize()
\* is awaited; a throw leaves what was assigned so far and is rethrown.
InitializeAIServices(start) ==
  IF ~env.ENABLE_AI_FEATURES
  THEN /\ UNCHANGED <<registry, client, ocrFields>>
       /\ initResult' = "returned"
  ELSE LET oa  == OpenAIInitialize(env.OPENAI_API_KEY)
           ocr == OCRInitialize(start)
           ocrThrew == env.ENABLE_OCR_PROCESSING /\ ocr.threw
       IN  /\ openaiService' = IF env.OPENAI_API_KEY THEN "OpenAIService" ELSE NULL
           /\ client' = IF env.OPENAI_API_KEY THEN oa.client ELSE NULL
           /\ ocrService' = IF env.ENABLE_OCR_PROCESSING THEN "OCRService" ELSE NULL
           /\ worker' = IF env.ENABLE_OCR_PROCESSING THEN ocr.worker ELSE NULL
           /\ isInitialized' = IF env.ENABLE_OCR_PROCESSING THEN ocr.isInitialized ELSE FALSE
           /\ workerLanguage' = IF env.ENABLE_OCR_PROCESSING /\ ocr.isInitialized
                                THEN defaultLanguage ELSE NULL
           /\ UNCHANGED defaultLanguage
           /\ documentAnalysisService' =
                IF ~ocrThrew /\ env.ENABLE_DOCUMENT_ANALYSIS
                THEN "DocumentAnalysisService" ELSE NULL
           /\ fraudDetectionService' =
                IF ~ocrThrew /\ env.ENABLE_FRAUD_DETECTION
                THEN "FraudDetectionService" ELSE NULL
           /\ classificationService' =
                IF ~ocrThrew /\ env.ENABLE_AUTOMATIC_CLASSIFICATION
                THEN "ClassificationService" ELSE NULL
           /\ verificationService' = IF ~ocrThrew THEN "VerificationService" ELSE NULL
           /\ initResult' = IF ocrThrew THEN "threw" ELSE "returned"

\* startServer: initializes the AI services when the master flag is on;
\* a throw ends the process, otherwise the server starts listening.
StartServer(start) ==
  /\ phase = "boot"
  /\ IF env.ENABLE_AI_FEATURES
     THEN /\ InitializeAIServices(start)
          /\ phase' = IF initResult' = "threw" THEN "exited" ELSE "serving"
     ELSE /\ UNCHANGED <<registry, client, ocrFields, initResult>>
          /\ phase' = "serving"
  /\ UNCHANGED <<env, batch, last, ai_analyses, calls>>

\* accessors: the handle, or a not-initialized error
Handle(service, name) ==
  IF service = NULL THEN [threw |-> TRUE, error |-> name \o " not initialized"]
  ELSE [threw |-> FALSE, service |-> service]

\* (variant: the accessor hands out the instance without the null check)
GetOpenAIServiceUnchecked == [threw |-> FALSE, service |-> openaiService]

GetOpenAIService == Handle(openaiService, "OpenAI service")
GetOCRService == Handle(ocrService, "OCR service")
GetDocumentAnalysisService == Handle(documentAnalysisService, "Document analysis service")
GetFraudDetectionService == Handle(fraudDetectionService, "Fraud detection service")
GetClassificationService == Handle(classificationService, "Classification service")
GetVerificationService == Handle(verificationService, "Verification service")

IsAIFeatureEnabled(feature) ==
  LET featureFlags == [openai |-> openaiService # NULL,
                       ocr |-> ocrService # NULL,
                       documentAnalysis |-> documentAnalysisService # NULL,
                       fraudDetection |-> fraudDetectionService # NULL,
                       classification |-> classificationService # NULL,
                       verification |-> verificationService # NULL]
  IN  IF feature \in DOMAIN featureFlags THEN featureFlags[feature] ELSE FALSE

\* ================================================================ routes
\* A response, with what the handler did on the way: the features it
\* checked with isAIFeatureEnabled, the registry accessors it called, the
\* engine operation's outcome and result, and the row it inserted.
NoResult == [none |-> TRUE]
NoContent == [t |-> "none"]
NoRow == [none |-> TRUE]
Unavailable == "Service unavailable"
BadRequest == "Bad request"

Base(route, checked, recordId) ==
  [route |-> route, recordId |-> recordId, status |-> 200, error |-> NULL, checked |-> checked,
   accessors |-> {}, accessorThrew |-> FALSE, ocr |-> "none", engine |-> "none",
   modelCalls |-> 0, recognizeCalls |-> 0, content |-> NoContent,
   result |-> NoResult, stored |-> NoRow, regions |-> [k |-> "absent"]]

\* (variant: the insert without its `if (req.body.recordId)` guard)
RowUnguarded(recordId, type, modelUsed) ==
  [record_id |-> recordId, analysis_type |-> type, model_used |-> modelUsed,
   status |-> "completed"]

\* The row a successful handler inserts: none without a record reference.
Row(recordId, type, modelUsed) ==
  IF recordId = NULL THEN NoRow
  ELSE [record_id |-> recordId, analysis_type |-> type, model_used |-> modelUsed,
        status |-> "completed"]

RecordIds == {NULL, "r1"}
Regions == {[k |-> "absent"], [k |-> "invalid"]} \cup {[k |-> "list", n |-> n] : n \in 0..MaxRegions}

\* POST /ocr
OcrRoute(hasFile, fileExists, language, regions, recordId, o, failAt) ==
  LET b == Base("ocr", {"ocr"}, recordId) IN
  IF ~IsAIFeatureEnabled("ocr")
  THEN [resp |-> [b EXCEPT !.status = 503, !.error = Unavailable], loaded |-> workerLanguage]
  ELSE IF ~hasFile
  THEN [resp |-> [b EXCEPT !.status = 400, !.error = BadRequest], loaded |-> workerLanguage]
  ELSE LET g  == GetOCRService
           b1 == [b EXCEPT !.accessors = {"ocr"}, !.regions = regions]
       IN  IF g.threw
           THEN [resp |-> [b1 EXCEPT !.status = 500, !.error = g.error, !.accessorThrew = TRUE],
                 loaded |-> workerLanguage]
           ELSE IF regions.k = "invalid"
           THEN [resp |-> [b1 EXCEPT !.status = 500, !.error = "SyntaxError"],
                 loaded |-> workerLanguage]
           ELSE LET x  == IF regions.k = "list"
                          THEN ExtractTextFromRegions(regions.n,
                                 IF failAt <= regions.n THEN failAt ELSE 0)
                          ELSE ExtractTextFromImage(fileExists, language, o)
                    b2 == [b1 EXCEPT !.engine = "returned", !.result = x.result,
                                     !.recognizeCalls = x.recognizeCalls]
                IN  IF ~x.result.success
                    THEN [resp |-> [b2 EXCEPT !.status = 500, !.error = "OCR processing failed"],
                          loaded |-> x.loaded]
                    ELSE [resp |-> [b2 EXCEPT !.stored = Row(recordId, "ocr", "tesseract")],
                          loaded |-> x.loaded]

\* (variant: the handler goes on to the analysis whatever the OCR result)
OcrFailedIgnored(isImage, x) == FALSE

\* /analyze leaves with 500 'OCR failed' when the image's OCR result is
\* not a success
OcrFailed(isImage, x) == isImage /\ ~x.result.success

\* POST /analyze
AnalyzeRoute(hasFile, isImage, fileOK, contextOK, recordId, o, outcome) ==
  LET b == Base("analyze", {"documentAnalysis"}, recordId) IN
  IF ~IsAIFeatureEnabled("documentAnalysis")
  THEN [resp |-> [b EXCEPT !.status = 503, !.error = Unavailable], loaded |-> workerLanguage]
  ELSE IF ~hasFile
  THEN [resp |-> [b EXCEPT !.status = 400, !.error = BadRequest], loaded |-> workerLanguage]
  ELSE LET g  == GetOpenAIService
           b1 == [b EXCEPT !.accessors = {"openai"}]
       IN
       IF g.threw
       THEN [resp |-> [b1 EXCEPT !.status = 500, !.error = g.error, !.accessorThrew = TRUE],
             loaded |-> workerLanguage]
       ELSE
       LET go == GetOCRService
           b2 == IF isImage THEN [b1 EXCEPT !.accessors = {"openai", "ocr"}] ELSE b1
       IN
       IF isImage /\ go.threw
       THEN [resp |-> [b2 EXCEPT !.status = 500, !.error = go.error, !.accessorThrew = TRUE],
             loaded |-> workerLanguage]
       ELSE
       LET x  == ExtractTextFromImage(fileOK, NULL, o)
           b3 == IF isImage
                 THEN [b2 EXCEPT !.recognizeCalls = x.recognizeCalls,
                                 !.ocr = IF x.result.success THEN "ok" ELSE "failed"]
                 ELSE b2
           ld == IF isImage THEN x.loaded ELSE workerLanguage
       IN
       IF OcrFailed(isImage, x)
       THEN [resp |-> [b3 EXCEPT !.status = 500, !.error = "OCR failed"], loaded |-> ld]
       ELSE IF ~isImage /\ ~fileOK
       THEN [resp |-> [b3 EXCEPT !.status = 500, !.error = "ENOENT"], loaded |-> ld]
       ELSE IF ~contextOK
       THEN [resp |-> [b3 EXCEPT !.status = 500, !.error = "SyntaxError"], loaded |-> ld]
       ELSE
       LET e == AnalyzeDocument(client, outcome, "general") IN
       IF e.threw
       THEN [resp |-> [b3 EXCEPT !.status = 500, !.error = e.error, !.engine = "threw",
                                 !.modelCalls = e.modelCalls], loaded |-> ld]
       ELSE
       LET b4 == [b3 EXCEPT !.engine = "returned", !.result = e.result,
                            !.content = e.content, !.modelCalls = e.modelCalls]
       IN  IF ~e.result.success
           THEN [resp |-> [b4 EXCEPT !.status = 500, !.error = "Document analysis failed"],
                 loaded |-> ld]
           ELSE [resp |-> [b4 EXCEPT !.stored = Row(recordId, "document_analysis", "openai")],
                 loaded |-> ld]

\* The tail shared by the three data routes: accessor, engine call, store.
EngineReply(b, g, e, failure, recordId, type) ==
  LET b1 == [b EXCEPT !.accessors = {"openai"}] IN
  IF g.threw
  THEN [b1 EXCEPT !.status = 500, !.error = g.error, !.accessorThrew = TRUE]
  ELSE IF e.threw
  THEN [b1 EXCEPT !.status = 500, !.error = e.error, !.engine = "threw",
                  !.modelCalls = e.modelCalls]
  ELSE LET b2 == [b1 EXCEPT !.engine = "returned", !.result = e.result,
                            !.content = e.content, !.modelCalls = e.modelCalls]
       IN  IF ~e.result.success
           THEN [b2 EXCEPT !.status = 500, !.error = failure]
           ELSE [b2 EXCEPT !.stored = Row(recordId, type, "openai")]

\* (variant: the route without its isAIFeatureEnabled gate)
FraudDetectionRouteUnchecked(documentData, recordData, recordId, outcome) ==
  LET b == Base("fraud-detection", {}, recordId) IN
  IF ~documentData \/ ~recordData
  THEN [b EXCEPT !.status = 400, !.error = BadRequest]
  ELSE EngineReply(b, GetOpenAIService, DetectFraud(client, outcome),
                   "Fraud detection failed", recordId, "fraud_detection")

\* POST /fraud-detection
FraudDetectionRoute(documentData, recordData, recordId, outcome) ==
  LET b == Base("fraud-detection", {"fraudDetection"}, recordId) IN
  IF ~IsAIFeatureEnabled("fraudDetection")
  THEN [b EXCEPT !.status = 503, !.error = Unavailable]
  ELSE IF ~documentData \/ ~recordData
  THEN [b EXCEPT !.status = 400, !.error = BadRequest]
  ELSE EngineReply(b, GetOpenAIService, DetectFraud(client, outcome),
                   "Fraud detection failed", recordId, "fraud_detection")

\* POST /classify
ClassifyRoute(documentData, recordId, outcome) ==
  LET b == Base("classify", {"classification"}, recordId) IN
  IF ~IsAIFeatureEnabled("classification")
  THEN [b EXCEPT !.status = 503, !.error = Unavailable]
  ELSE IF ~documentData
  THEN [b EXCEPT !.status = 400, !.error = BadRequest]
  ELSE EngineReply(b, GetOpenAIService, ClassifyRecord(client, outcome),
                   "Classification failed", recordId, "classification")

\* POST /validate
ValidateRoute(data, dataType, recordId, outcome) ==
  LET b == Base("validate", {"openai"}, recordId) IN
  IF ~IsAIFeatureEnabled("openai")
  THEN [b EXCEPT !.status = 503, !.error = Unavailable]
  ELSE IF ~data \/ ~dataType
  THEN [b EXCEPT !.status = 400, !.error = BadRequest]
  ELSE EngineReply(b, GetOpenAIService, ValidateData(client, outcome),
                   "Validation failed", recordId, "validation")

Idle == phase = "serving" /\ ~batch.active

\* ------------------------------------------------------ the ai_analyses table
\* The table keeps, per row, the columns the queries look at; the other
\* columns of an inserted row are in the response's `stored`.
Stamps(table) == {table[i].created_at : i \in 1..Len(table)}

\* created_at: new Date() at the insert, later than every earlier insert
NewDate(table) ==
  IF table = <<>> THEN 1
  ELSE 1 + CHOOSE m \in Stamps(table) : \A n \in Stamps(table) : n <= m

\* db('ai_analyses').insert({record_id, ..., status, created_at: new Date()})
Insert(table, row) ==
  IF row = NoRow THEN table
  ELSE Append(table, [record_id |-> row.record_id, status |-> row.status,
                      created_at |-> NewDate(table)])

\* The handler's insert, if it made one; the table holds MaxRows rows.
Persist(resp) ==
  /\ ai_analyses' = Insert(ai_analyses, resp.stored)
  /\ Len(ai_analyses') <= MaxRows

\* The model answers only when it is called.
NoCall == [threw |-> TRUE]
Answers(resp) == IF resp.modelCalls > 0 THEN ModelOutcomes ELSE {NoCall}

\* What else a request carries is drawn only when the handler gets to
\* read it: past its feature gate and its file check.
Read(feature, hasFile, values, default) ==
  IF hasFile /\ IsAIFeatureEnabled(feature) THEN values ELSE {default}

Ocr ==
  /\ Idle
  /\ \E hasFile \in BOOLEAN, recordId \in RecordIds :
     \E regions \in Read("ocr", hasFile, Regions, [k |-> "invalid"]) :
     \E failAt \in (IF regions.k = "list" THEN 0..regions.n ELSE {0}),
        fileExists \in (IF regions.k = "absent" THEN BOOLEAN ELSE {TRUE}),
        language \in (IF regions.k = "absent" THEN Languages \cup {NULL} ELSE {NULL}),
        o \in (IF regions.k = "absent" THEN OcrOutcomes ELSE {"ok"}) :
       LET r == OcrRoute(hasFile, fileExists, language, regions, recordId, o, failAt)
       IN  /\ last' = r.resp
           /\ workerLanguage' = r.loaded
           /\ Persist(r.resp)
  /\ UNCHANGED <<env, phase, initResult, registry, client, worker, isInitialized,
                 defaultLanguage, batch, calls>>

Analyze ==
  /\ Idle
  /\ \E hasFile \in BOOLEAN, recordId \in RecordIds :
     \E isImage \in Read("documentAnalysis", hasFile, BOOLEAN, FALSE),
        fileOK \in Read("documentAnalysis", hasFile, BOOLEAN, TRUE),
        contextOK \in Read("documentAnalysis", hasFile, BOOLEAN, TRUE) :
     \E o \in (IF isImage THEN OcrOutcomes ELSE {"ok"}) :
     \E outcome \in Answers(AnalyzeRoute(hasFile, isImage, fileOK, contextOK,
                                         recordId, o, NoCall).resp) :
       LET r == AnalyzeRoute(hasFile, isImage, fileOK, contextOK, recordId, o, outcome)
       IN  /\ last' = r.resp
           /\ workerLanguage' = r.loaded
           /\ Persist(r.resp)
  /\ UNCHANGED <<env, phase, initResult, registry, client, worker, isInitialized,
                 defaultLanguage, batch, calls>>

FraudDetection ==
  /\ Idle
  /\ \E documentData, recordData \in BOOLEAN, recordId \in RecordIds :
     \E outcome \in Answers(FraudDetectionRoute(documentData, recordData, recordId, NoCall)) :
       /\ last' = FraudDetectionRoute(documentData, recordData, recordId, outcome)
       /\ Persist(last')
  /\ UNCHANGED <<env, phase, initResult, registry, client, ocrFields, batch, calls>>

Classify ==
  /\ Idle
  /\ \E documentData \in BOOLEAN, recordId \in RecordIds :
     \E outcome \in Answers(ClassifyRoute(documentData, recordId, NoCall)) :
       /\ last' = ClassifyRoute(documentData, recordId, outcome)
       /\ Persist(last')
  /\ UNCHANGED <<env, phase, initResult, registry, client, ocrFields, batch, calls>>

Validate ==
  /\ Idle
  /\ \E data, dataType \in BOOLEAN, recordId \in RecordIds :
     \E outcome \in Answers(ValidateRoute(data, dataType, recordId, NoCall)) :
       /\ last' = ValidateRoute(data, dataType, recordId, outcome)
       /\ Persist(last')
  /\ UNCHANGED <<env, phase, initResult, registry, client, ocrFields, batch, calls>>

\* ------------------------------------------------------- POST /batch-process
ProcessTypes == {"ocr", "analysis", "other"}

\* An entry of results, with the engine calls made on the way to it
Entry(file, success, outcome, recognized, asked) ==
  [filename |-> file, success |-> success, outcome |-> outcome,
   recognizeCalls |-> recognized, modelCalls |-> asked]

\* One turn of the loop body for `file`: the entry pushed to results.
\*   outcome "result": the engine returned a result object
\*           "none"  : result stayed undefined (feature not enabled)
\*           "caught": an exception reached the per-file catch
BatchItem(file, processType, optionsOK, fileOK, o, outcome) ==
  CASE processType = "ocr" ->
         IF ~IsAIFeatureEnabled("ocr")
         THEN [entry |-> Entry(file, FALSE, "none", 0, 0), loaded |-> workerLanguage,
               modelCalls |-> 0]
         ELSE IF GetOCRService.threw \/ ~optionsOK
         THEN [entry |-> Entry(file, FALSE, "caught", 0, 0), loaded |-> workerLanguage,
               modelCalls |-> 0]
         ELSE LET x == ExtractTextFromImage(fileOK, NULL, o)
              IN  [entry |-> Entry(file, x.result.success, "result", x.recognizeCalls, 0),
                   loaded |-> x.loaded, modelCalls |-> 0]
    [] processType = "analysis" ->
         IF ~IsAIFeatureEnabled("documentAnalysis")
         THEN [entry |-> Entry(file, FALSE, "none", 0, 0), loaded |-> workerLanguage,
               modelCalls |-> 0]
         ELSE IF GetOpenAIService.threw \/ ~fileOK
         THEN [entry |-> Entry(file, FALSE, "caught", 0, 0), loaded |-> workerLanguage,
               modelCalls |-> 0]
         ELSE LET e == AnalyzeDocument(client, outcome, "general")
              IN  IF e.threw
                  THEN [entry |-> Entry(file, FALSE, "caught", 0, e.modelCalls),
                        loaded |-> workerLanguage, modelCalls |-> e.modelCalls]
                  ELSE [entry |-> Entry(file, e.result.success, "result", 0, e.modelCalls),
                        loaded |-> workerLanguage, modelCalls |-> e.modelCalls]
    [] OTHER ->
         [entry |-> Entry(file, FALSE, "result", 0, 0), loaded |-> workerLanguage,
          modelCalls |-> 0]

BatchResponse(status, files, results, processType) ==
  [route |-> "batch-process", status |-> status, files |-> files, results |-> results,
   totalFiles |-> Len(files), processType |-> processType]

\* (variant: every file's processing is started at once, as with
\*  Promise.all over req.files.map)
BatchReceiveAll ==
  /\ Idle
  /\ \E n \in 0..MaxFiles, processType \in ProcessTypes, optionsOK \in BOOLEAN :
       IF n = 0
       THEN /\ last' = BatchResponse(400, <<>>, <<>>, processType)
            /\ UNCHANGED batch
       ELSE /\ batch' = [active |-> TRUE, files |-> [i \in 1..n |-> i],
                         processType |-> processType, optionsOK |-> optionsOK,
                         results |-> <<>>, inFlight |-> 1..n]
            /\ last' = NoResponse
  /\ UNCHANGED <<env, phase, initResult, registry, client, ocrFields, ai_analyses, calls>>

\* The request arrives: 400 without files, else the loop enters its body
\* for the first file.  inFlight holds the files whose loop body has begun
\* (engine call included) and whose entry is not pushed yet.
BatchReceive ==
  /\ Idle
  /\ \E n \in 0..MaxFiles, processType \in ProcessTypes, optionsOK \in BOOLEAN :
       IF n = 0
       THEN /\ last' = BatchResponse(400, <<>>, <<>>, processType)
            /\ UNCHANGED batch
       ELSE /\ batch' = [active |-> TRUE, files |-> [i \in 1..n |-> i],
                         processType |-> processType, optionsOK |-> optionsOK,
                         results |-> <<>>, inFlight |-> {1}]
            /\ last' = NoResponse
  /\ UNCHANGED <<env, phase, initResult, registry, client, ocrFields, ai_analyses, calls>>

\* (variant: no per-file try/catch, so an exception ends the whole request)
ProcessFileNoCatch(fileOK, o, outcome) ==
  /\ phase = "serving" /\ batch.active
  /\ LET i       == Len(batch.results) + 1
         it      == BatchItem(batch.files[i], batch.processType, batch.optionsOK,
                              fileOK, o, outcome)
         results == Append(batch.results, it.entry)
     IN  /\ workerLanguage' = it.loaded
         /\ IF it.entry.outcome = "caught"
            THEN /\ last' = BatchResponse(500, batch.files, <<>>, batch.processType)
                 /\ batch' = NoBatch
            ELSE IF i = Len(batch.files)
            THEN /\ last' = BatchResponse(200, batch.files, results, batch.processType)
                 /\ batch' = NoBatch
            ELSE /\ batch' = [batch EXCEPT !.results = results,
                                           !.inFlight = (@ \ {i}) \cup {i + 1}]
                 /\ UNCHANGED last
  /\ UNCHANGED <<env, phase, initResult, registry, client, worker, isInitialized,
                 defaultLanguage, ai_analyses, calls>>

\* The awaited loop body for file i ends and its entry is pushed; the loop
\* then enters its body for file i+1, or sends the response after the last.
ProcessFile(fileOK, o, outcome) ==
  /\ phase = "serving" /\ batch.active
  /\ LET i       == Len(batch.results) + 1
         it      == BatchItem(batch.files[i], batch.processType, batch.optionsOK,
                              fileOK, o, outcome)
         results == Append(batch.results, it.entry)
     IN  /\ workerLanguage' = it.loaded
         /\ IF i = Len(batch.files)
            THEN /\ last' = BatchResponse(200, batch.files, results, batch.processType)
                 /\ batch' = NoBatch
            ELSE /\ batch' = [batch EXCEPT !.results = results,
                                           !.inFlight = (@ \ {i}) \cup {i + 1}]
                 /\ UNCHANGED last
  /\ UNCHANGED <<env, phase, initResult, registry, client, worker, isInitialized,
                 defaultLanguage, ai_analyses, calls>>

BatchStep ==
  \E fileOK \in BOOLEAN, o \in OcrOutcomes :
    /\ batch.active
    /\ \E outcome \in Answers(BatchItem(batch.files[Len(batch.results) + 1], batch.processType,
                                        batch.optionsOK, fileOK, o, NoCall)) :
         ProcessFile(fileOK, o, outcome)

\* ------------------------------------------------------ GET /history/:recordId
References == {"r1", "r2"}

\* .where('record_id', recordId)
Matching(table, recordId) == SelectSeq(table, LAMBDA row : row.record_id = recordId)

\* .orderBy('created_at', 'desc'): the orders the database may return the
\* rows in, rows with equal created_at in any order
Orders(rows) ==
  {p \in [1..Len(rows) -> 1..Len(rows)] :
     /\ \A i, j \in 1..Len(rows) : i # j => p[i] # p[j]
     /\ \A i, j \in 1..Len(rows) :
          i < j => rows[p[i]].created_at >= rows[p[j]].created_at}

\* .limit(limit).offset(offset)
Window(rows, limit, offset) ==
  IF offset >= Len(rows) THEN <<>>
  ELSE SubSeq(rows, offset + 1,
              IF offset + limit < Len(rows) THEN offset + limit ELSE Len(rows))

\* (variant: total taken from the page instead of the count query)
HistoryRoutePageTotal(recordId, limit, offset, p) ==
  LET rows   == Matching(ai_analyses, recordId)
      sorted == [i \in 1..Len(rows) |-> rows[p[i]]]
  IN  [route |-> "history", status |-> 200, recordId |-> recordId,
       analyses |-> Window(sorted, limit, offset),
       pagination |-> [total |-> Len(Window(sorted, limit, offset)),
                       limit |-> limit, offset |-> offset]]

\* The handler: the page query, then the count query
HistoryRoute(recordId, limit, offset, p) ==
  LET rows   == Matching(ai_analyses, recordId)
      sorted == [i \in 1..Len(rows) |-> rows[p[i]]]
  IN  [route |-> "history", status |-> 200, recordId |-> recordId,
       analyses |-> Window(sorted, limit, offset),
       pagination |-> [total |-> Len(rows), limit |-> limit, offset |-> offset]]

\* limit (default 50: more than the reference has rows) and offset
\* (default 0), up to the number of rows the reference has
History ==
  /\ Idle
  /\ \E recordId \in References :
     \E limit \in 1..(Len(Matching(ai_analyses, recordId)) + 1),
        offset \in 0..Len(Matching(ai_analyses, recordId)),
        p \in Orders(Matching(ai_analyses, recordId)) :
       last' = HistoryRoute(recordId, limit, offset, p)
  /\ UNCHANGED <<env, phase, initResult, registry, client, ocrFields, batch, ai_analyses, calls>>

\* ------------------------------------------------------------ health checks
Probe(b) == IF b THEN "true" ELSE "false"

\* GET /health: per engine, unhealthy when the probe is false or throws
HealthRoute(openaiProbe, ocrProbe) ==
  LET oaOn  == IsAIFeatureEnabled("openai")
      ocrOn == IsAIFeatureEnabled("ocr")
      oaBad  == GetOpenAIService.threw \/ openaiProbe # "true"
      ocrBad == GetOCRService.threw \/ ocrProbe # "true"
  IN  [route |-> "health",
       status |-> IF (oaOn /\ oaBad) \/ (ocrOn /\ ocrBad) THEN "degraded" ELSE "healthy",
       services |-> [openai |-> IF ~oaOn THEN "absent"
                                ELSE IF oaBad THEN "unhealthy" ELSE "healthy",
                     ocr |-> IF ~ocrOn THEN "absent"
                             ELSE IF ocrBad THEN "unhealthy" ELSE "healthy"],
       probes |-> [openai |-> IF oaOn THEN openaiProbe ELSE "none",
                   ocr |-> IF ocrOn THEN ocrProbe ELSE "none"]]

\* (variant: one try/catch around both probes instead of one each)
CheckAIServicesHealthOneTry(openaiProbe, ocrProbe) ==
  LET oaOn  == openaiService # NULL
      ocrOn == ocrService # NULL
      oaThrew  == oaOn /\ openaiProbe = "throws"
      ocrThrew == ocrOn /\ ~oaThrew /\ ocrProbe = "throws"
      other(service) == IF oaThrew \/ ocrThrew THEN "absent"
                        ELSE IF service # NULL THEN "healthy" ELSE "disabled"
  IN  [route |-> "checkAIServicesHealth",
       status |-> IF oaThrew \/ ocrThrew THEN "unhealthy" ELSE "healthy",
       services |-> [openai |-> IF ~oaOn \/ oaThrew THEN "absent" ELSE "healthy",
                     ocr |-> IF ~ocrOn \/ oaThrew \/ ocrThrew THEN "absent" ELSE "healthy",
                     documentAnalysis |-> other(documentAnalysisService),
                     fraudDetection |-> other(fraudDetectionService),
                     classification |-> other(classificationService),
                     verification |-> other(verificationService)],
       probes |-> [openai |-> IF oaOn THEN openaiProbe ELSE "none",
                   ocr |-> IF ocrOn /\ ~oaThrew THEN ocrProbe ELSE "none"]]

\* checkAIServicesHealth: awaits each probe and marks the engine unhealthy
\* only in the catch block; the probe's boolean is not looked at.
CheckAIServicesHealth(openaiProbe, ocrProbe) ==
  LET oaOn  == openaiService # NULL
      ocrOn == ocrService # NULL
      oaBad  == openaiProbe = "throws"
      ocrBad == ocrProbe = "throws"
      other(service) == IF service # NULL THEN "healthy" ELSE "disabled"
  IN  [route |-> "checkAIServicesHealth",
       status |-> IF (oaOn /\ oaBad) \/ (ocrOn /\ ocrBad) THEN "degraded" ELSE "healthy",
       services |-> [openai |-> IF ~oaOn THEN "absent"
                                ELSE IF oaBad THEN "unhealthy" ELSE "healthy",
                     ocr |-> IF ~ocrOn THEN "absent"
                             ELSE IF ocrBad THEN "unhealthy" ELSE "healthy",
                     documentAnalysis |-> other(documentAnalysisService),
                     fraudDetection |-> other(fraudDetectionService),
                     classification |-> other(classificationService),
                     verification |-> other(verificationService)],
       probes |-> [openai |-> IF oaOn THEN openaiProbe ELSE "none",
                   ocr |-> IF ocrOn THEN ocrProbe ELSE "none"]]

HealthInputs(oaOn) == IF oaOn THEN ModelOutcomes ELSE {NoCall}

Health ==
  /\ Idle
  /\ \E o \in {"ok", "recognizeFails"}, outcome \in HealthInputs(IsAIFeatureEnabled("openai")) :
       last' = HealthRoute(Probe(OpenAIHealthCheck(client, outcome)), Probe(OCRHealthCheck(o)))
  /\ UNCHANGED <<env, phase, initResult, registry, client, ocrFields, batch, ai_analyses, calls>>

RegistryHealth ==
  /\ Idle
  /\ \E o \in {"ok", "recognizeFails"}, outcome \in HealthInputs(openaiService # NULL) :
       last' = CheckAIServicesHealth(Probe(OpenAIHealthCheck(client, outcome)),
                                     Probe(OCRHealthCheck(o)))
  /\ UNCHANGED <<env, phase, initResult, registry, client, ocrFields, batch, ai_analyses, calls>>

Next ==
  \/ \E start \in WorkerStarts : StartServer(start)
  \/ Ocr
  \/ Analyze
  \/ FraudDetection
  \/ Classify
  \/ Validate
  \/ BatchReceive
  \/ BatchStep
  \/ Health
  \/ RegistryHealth
  \/ History

Spec == Init /\ [][Next]_vars

\* ======================================== the router over a populated table
\* The database outlives the process: the server may start over any table.
StoredRows == [record_id : References, status : {"completed"}, created_at : 1..MaxRows]
Tables == UNION {[1..n -> StoredRows] : n \in 0..MaxStored}
NoneEnabled == CHOOSE e \in Envs : \A f \in DOMAIN e : ~e[f]

HistoryInit ==
  /\ Boot
  /\ env = NoneEnabled
  /\ ai_analyses \in Tables
  /\ calls = [c \in 1..MaxCalls |-> NotCalled]

HistoryNext ==
  \/ \E start \in WorkerStarts : StartServer(start)
  \/ History

SpecHistory == HistoryInit /\ [][HistoryNext]_vars

\* ===================================== OCRService under concurrent callers
\* extractTextFromImage and changeLanguage called on the one OCRService
\* instance, an extraction advancing from one await to the next, so that
\* the steps of several invocations interleave.
Callers == 1..MaxCalls
InFlight == {c \in Callers : calls[c].pc \notin {"idle", "done"}}
Serving == phase = "serving" /\ ocrService # NULL
OcrFrame == UNCHANGED <<server, worker, isInitialized, batch, last, ai_analyses>>

\* A returned invocation keeps its result, the language the worker
\* recognized with, and the calls that ran while it was in flight: the
\* invocations in flight when it began, those begun before it returned, and
\* ChangeLanguageCaller for a changeLanguage made meanwhile.
ChangeLanguageCaller == 0

Overlaps(c) ==
  [d \in Callers |-> IF d \in InFlight THEN [calls[d] EXCEPT !.peers = @ \cup {c}]
                     ELSE calls[d]]

Returns(c, result, used, peers) ==
  [calls EXCEPT ![c] = [pc |-> "done", result |-> result, used |-> used, peers |-> peers]]

\* (variant: the catch block rethrows instead of returning a result)
FailsRethrown(c, msg) ==
  [calls EXCEPT ![c] = [pc |-> "done", threw |-> msg, used |-> NULL, peers |-> {}]]

\* the catch block: {success: false, error: error.message, timestamp}
Fails(c, msg) ==
  Returns(c, [success |-> FALSE, error |-> msg, timestamp |-> Now], NULL, {})

\* the call is made: the isInitialized check, then fs.access is awaited
ExtractCall(c, optLanguage) ==
  /\ Serving /\ calls[c].pc = "idle"
  /\ calls' = IF ~isInitialized THEN Fails(c, "OCR service not initialized")
              ELSE [Overlaps(c) EXCEPT ![c] = [pc |-> "access", option |-> optLanguage,
                                               peers |-> InFlight]]
  /\ UNCHANGED <<defaultLanguage, workerLanguage>>
  /\ OcrFrame

\* fs.access settles; the language is chosen and compared with the default:
\* either loadLanguage or recognize is awaited next
ExtractAccess(c, fileExists) ==
  /\ Serving /\ calls[c].pc = "access"
  /\ LET language == IF calls[c].option # NULL THEN calls[c].option ELSE defaultLanguage
     IN  calls' = IF ~fileExists THEN Fails(c, "ENOENT")
                  ELSE [calls EXCEPT ![c] =
                          [pc |-> IF language # defaultLanguage THEN "load" ELSE "recognize",
                           peers |-> @.peers, language |-> language]]
  /\ UNCHANGED <<defaultLanguage, workerLanguage>>
  /\ OcrFrame

\* worker.loadLanguage(language) settles; worker.initialize is awaited next
ExtractLoad(c, ok) ==
  /\ Serving /\ calls[c].pc = "load"
  /\ calls' = IF ok THEN [calls EXCEPT ![c].pc = "initialize"]
              ELSE Fails(c, "language load failed")
  /\ UNCHANGED <<defaultLanguage, workerLanguage>>
  /\ OcrFrame

\* worker.initialize(language) settles: the worker now recognizes with it
ExtractInitialize(c, ok) ==
  /\ Serving /\ calls[c].pc = "initialize"
  /\ calls' = IF ok THEN [calls EXCEPT ![c].pc = "recognize"]
              ELSE Fails(c, "language load failed")
  /\ workerLanguage' = IF ok THEN calls[c].language ELSE workerLanguage
  /\ UNCHANGED defaultLanguage
  /\ OcrFrame

\* worker.recognize settles, with the language the worker has loaded
ExtractRecognize(c, ok) ==
  /\ Serving /\ calls[c].pc = "recognize"
  /\ calls' = IF ok
              THEN Returns(c, [success |-> TRUE, text |-> "text",
                               language |-> calls[c].language, timestamp |-> Now],
                           workerLanguage, calls[c].peers)
              ELSE Fails(c, "recognize failed")
  /\ UNCHANGED <<defaultLanguage, workerLanguage>>
  /\ OcrFrame

\* Languages a caller may ask changeLanguage for; "fra" is not supported.
SupportedLanguages == Languages
AskedLanguages == SupportedLanguages \cup {"fra"}

\* (variant: changeLanguage without its supportedLanguages check)
ChangeLanguageUnchecked(language, o) ==
  IF worker = NULL
  THEN [threw |-> TRUE, error |-> "TypeError",
        defaultLanguage |-> defaultLanguage, loaded |-> workerLanguage]
  ELSE IF o = "loadFails"
  THEN [threw |-> TRUE, error |-> "language load failed",
        defaultLanguage |-> defaultLanguage, loaded |-> workerLanguage]
  ELSE [threw |-> FALSE, error |-> NULL, defaultLanguage |-> language, loaded |-> language]

\* changeLanguage(language): what it throws or returns, and the default
\* language and the worker's loaded language afterwards
ChangeLanguage(language, o) ==
  IF language \notin SupportedLanguages
  THEN [threw |-> TRUE, error |-> "Language not supported",
        defaultLanguage |-> defaultLanguage, loaded |-> workerLanguage]
  ELSE IF worker = NULL
  THEN [threw |-> TRUE, error |-> "TypeError",
        defaultLanguage |-> defaultLanguage, loaded |-> workerLanguage]
  ELSE IF o = "loadFails"
  THEN [threw |-> TRUE, error |-> "language load failed",
        defaultLanguage |-> defaultLanguage, loaded |-> workerLanguage]
  ELSE [threw |-> FALSE, error |-> NULL, defaultLanguage |-> language, loaded |-> language]

\* A caller changes the language; `last` keeps the call, how the worker
\* answered ("noWorker" when cleanup has released it, so that
\* this.worker.loadLanguage is a TypeError), its outcome and the two
\* languages before and after it.
ChangeLanguageCall ==
  /\ Serving
  /\ \E language \in AskedLanguages, o \in {"ok", "loadFails"} :
       LET r == ChangeLanguage(language, o)
       IN  /\ defaultLanguage' = r.defaultLanguage
           /\ workerLanguage' = r.loaded
           /\ last' = [route |-> "changeLanguage", language |-> language,
                       o |-> IF language \in SupportedLanguages /\ worker = NULL
                             THEN "noWorker" ELSE o,
                       threw |-> r.threw, error |-> r.error,
                       before |-> [defaultLanguage |-> defaultLanguage,
                                   loaded |-> workerLanguage],
                       after |-> [defaultLanguage |-> r.defaultLanguage,
                                  loaded |-> r.loaded]]
  /\ calls' = Overlaps(ChangeLanguageCaller)
  /\ UNCHANGED <<server, worker, isInitialized, batch, ai_analyses>>

\* How worker.terminate() settles
Terminations == {"ok", "terminateFails"}

\* (variant: cleanup without its try/catch)
CleanupNoCatch(o) ==
  IF worker = NULL
  THEN [threw |-> FALSE, terminated |-> FALSE, worker |-> worker,
        isInitialized |-> isInitialized]
  ELSE IF o = "terminateFails"
  THEN [threw |-> TRUE, terminated |-> FALSE, worker |-> worker,
        isInitialized |-> isInitialized]
  ELSE [threw |-> FALSE, terminated |-> TRUE, worker |-> NULL, isInitialized |-> FALSE]

\* cleanup(): with a worker, terminate it, then worker = null and
\* isInitialized = false; a failing terminate is caught and logged, and the
\* two assignments after it are skipped.  Without a worker nothing is done.
Cleanup(o) ==
  IF worker = NULL
  THEN [threw |-> FALSE, terminated |-> FALSE, worker |-> worker,
        isInitialized |-> isInitialized]
  ELSE IF o = "terminateFails"
  THEN [threw |-> FALSE, terminated |-> FALSE, worker |-> worker,
        isInitialized |-> isInitialized]
  ELSE [threw |-> FALSE, terminated |-> TRUE, worker |-> NULL, isInitialized |-> FALSE]

\* A caller cleans the engine up while no extraction is in flight; `last`
\* keeps the call, how terminate settled (when it was called), and the
\* engine's fields before and after.
CleanupCall ==
  /\ Serving /\ InFlight = {}
  /\ \E o \in Terminations :
       LET r == Cleanup(o)
       IN  /\ worker' = r.worker
           /\ isInitialized' = r.isInitialized
           /\ last' = [route |-> "cleanup", threw |-> r.threw,
                       terminate |-> IF worker = NULL THEN "notCalled" ELSE o,
                       before |-> [worker |-> worker, isInitialized |-> isInitialized],
                       after |-> [worker |-> r.worker,
                                  isInitialized |-> r.isInitialized]]
  /\ UNCHANGED <<server, defaultLanguage, workerLanguage, batch, ai_analyses, calls>>

OcrNext ==
  \/ \E start \in WorkerStarts : StartServer(start)
  \/ \E c \in Callers, optLanguage \in Languages \cup {NULL} : ExtractCall(c, optLanguage)
  \/ \E c \in Callers, fileExists \in BOOLEAN : ExtractAccess(c, fileExists)
  \/ \E c \in Callers, ok \in BOOLEAN : ExtractLoad(c, ok)
  \/ \E c \in Callers, ok \in BOOLEAN : ExtractInitialize(c, ok)
  \/ \E c \in Callers, ok \in BOOLEAN : ExtractRecognize(c, ok)
  \/ ChangeLanguageCall
  \/ CleanupCall

\* The service exists in the configurations that enable it; every engine
\* is enabled here.
AllEnabled == CHOOSE e \in Envs : \A f \in DOMAIN e : e[f]
OcrInit == Init /\ env = AllEnabled

SpecOcr == OcrInit /\ [][OcrNext]_vars

\* ====================== the two health aggregators over any engine answers
\* checkAIServicesHealth and GET /health await healthCheck() of whatever
\* engine instance the registry holds: to them a probe is a promise that
\* resolves true, resolves false, or rejects.  (The two engines of this
\* repository catch every error inside healthCheck and never reject.)
ProbeOutcomes == {"true", "false", "throws"}
ProbesOf(service) == IF service # NULL THEN ProbeOutcomes ELSE {"none"}

\* GET /health is answered; `last` keeps the response
RouterProbed ==
  /\ phase = "serving"
  /\ \E openaiProbe \in ProbesOf(openaiService), ocrProbe \in ProbesOf(ocrService) :
       last' = HealthRoute(openaiProbe, ocrProbe)
  /\ UNCHANGED <<server, ocrFields, batch, ai_analyses, calls>>

\* checkAIServicesHealth() returns; calls[1] keeps what it returned
RegistryProbed ==
  /\ phase = "serving"
  /\ \E openaiProbe \in ProbesOf(openaiService), ocrProbe \in ProbesOf(ocrService) :
       calls' = [calls EXCEPT ![1] =
                   [pc |-> "done", op |-> "checkAIServicesHealth",
                    result |-> CheckAIServicesHealth(openaiProbe, ocrProbe)]]
  /\ UNCHANGED <<server, ocrFields, batch, ai_analyses, last>>

\* OpenAIService.healthCheck() returns; calls[2] keeps how the model call
\* settled and what healthCheck returned
OpenAIProbed ==
  /\ phase = "serving" /\ openaiService # NULL
  /\ \E outcome \in ModelOutcomes :
       calls' = [calls EXCEPT ![2] =
                   [pc |-> "done", op |-> "OpenAIService.healthCheck", client |-> client,
                    outcome |-> outcome, result |-> OpenAIHealthCheck(client, outcome)]]
  /\ UNCHANGED <<server, ocrFields, batch, ai_analyses, last>>

\* OCRService.healthCheck() returns; `last` keeps the engine's fields, how
\* the test recognition settled (when it was made) and what was returned
OcrProbed ==
  /\ phase = "serving" /\ ocrService # NULL
  /\ \E o \in {"ok", "recognizeFails"} :
       last' = [route |-> "OCRService.healthCheck",
                isInitialized |-> isInitialized, worker |-> worker,
                recognize |-> IF isInitialized /\ worker # NULL THEN o ELSE "notCalled",
                result |-> OCRHealthCheck(o)]
  /\ UNCHANGED <<server, ocrFields, batch, ai_analyses, calls>>

HealthNext ==
  \/ \E start \in WorkerStarts : StartServer(start)
  \/ RouterProbed
  \/ RegistryProbed
  \/ OpenAIProbed
  \/ OcrProbed
  \/ CleanupCall

SpecHealth == Init /\ [][HealthNext]_vars

\* =============================================================== properties
EngineRoutes == {"analyze", "fraud-detection", "classify", "validate"}
UserRoutes == {"ocr"} \cup EngineRoutes

\* C1: a batch request with N >= 1 files is answered with exactly N result
\* entries, entry i for file i, totalFiles = N and a boolean success flag in
\* every entry, whatever happened to the individual files; while the loop
\* runs, the entries collected so far are those of the first files, in order.
C1_BatchReturnsAllInOrder ==
  /\ batch.active =>
       /\ Len(batch.results) < Len(batch.files)
       /\ \A i \in 1..Len(batch.results) :
            /\ batch.results[i].filename = batch.files[i]
            /\ batch.results[i].success \in BOOLEAN
  /\ (last.route = "batch-process" /\ Len(last.files) >= 1) =>
       /\ last.status = 200
       /\ Len(last.results) = Len(last.files)
       /\ last.totalFiles = Len(last.files)
       /\ \A i \in 1..Len(last.files) :
            /\ last.results[i].filename = last.files[i]
            /\ last.results[i].success \in BOOLEAN

\* a two-file batch answered after the first file threw and the second succeeded
C1_Witness ==
  /\ last.route = "batch-process" /\ last.status = 200
  /\ Len(last.files) = 2
  /\ last.results[1].outcome = "caught" /\ ~last.results[1].success
  /\ last.results[2].success

\* C2: isAIFeatureEnabled is false for every feature before
\* initializeAIServices has run; in a server that came up after it ran, a
\* flagged feature is enabled exactly when its flag is on and its engine
\* started (the model client for the three analysis features, the OCR
\* worker for ocr).
C2_EnabledIffFlagAndStarted ==
  /\ initResult = "notrun" => \A f \in Features : ~IsAIFeatureEnabled(f)
  /\ (phase = "serving" /\ initResult = "returned") =>
       /\ IsAIFeatureEnabled("openai") <=> (env.OPENAI_API_KEY /\ client # NULL)
       /\ IsAIFeatureEnabled("ocr") <=> (env.ENABLE_OCR_PROCESSING /\ isInitialized)
       /\ IsAIFeatureEnabled("documentAnalysis")
            <=> (env.ENABLE_DOCUMENT_ANALYSIS /\ client # NULL)
       /\ IsAIFeatureEnabled("fraudDetection")
            <=> (env.ENABLE_FRAUD_DETECTION /\ client # NULL)
       /\ IsAIFeatureEnabled("classification")
            <=> (env.ENABLE_AUTOMATIC_CLASSIFICATION /\ client # NULL)

\* C3: once initializeAIServices has run with the master flag on, it has
\* not aborted; a flagged feature whose credentials are missing or whose
\* engine failed to start is not enabled; and every flagged feature whose
\* engine did start is enabled.
C3_InitDegradesGracefully ==
  (initResult # "notrun" /\ env.ENABLE_AI_FEATURES) =>
    /\ initResult = "returned"
    /\ (env.ENABLE_OCR_PROCESSING /\ ~isInitialized) => ~IsAIFeatureEnabled("ocr")
    /\ ~env.OPENAI_API_KEY =>
         /\ ~IsAIFeatureEnabled("documentAnalysis")
         /\ ~IsAIFeatureEnabled("fraudDetection")
         /\ ~IsAIFeatureEnabled("classification")
    /\ env.OPENAI_API_KEY =>
         /\ env.ENABLE_DOCUMENT_ANALYSIS => IsAIFeatureEnabled("documentAnalysis")
         /\ env.ENABLE_FRAUD_DETECTION => IsAIFeatureEnabled("fraudDetection")
         /\ env.ENABLE_AUTOMATIC_CLASSIFICATION => IsAIFeatureEnabled("classification")

\* C4: each registry accessor returns the instance exactly when
\* isAIFeatureEnabled holds for that engine, and otherwise throws and hands
\* out nothing; a data route that called getOpenAIService got the throw
\* exactly when the model engine was not enabled.
C4_AccessorIffEnabled ==
  /\ \A p \in { <<GetOpenAIService, "openai", openaiService>>,
                <<GetOCRService, "ocr", ocrService>>,
                <<GetDocumentAnalysisService, "documentAnalysis", documentAnalysisService>>,
                <<GetFraudDetectionService, "fraudDetection", fraudDetectionService>>,
                <<GetClassificationService, "classification", classificationService>>,
                <<GetVerificationService, "verification", verificationService>> } :
       /\ ~p[1].threw <=> IsAIFeatureEnabled(p[2])
       /\ ~p[1].threw => (p[1].service = p[3] /\ p[3] # NULL)
       /\ p[1].threw => "service" \notin DOMAIN p[1]
  /\ (last.route \in {"fraud-detection", "classify", "validate"}
        /\ "openai" \in last.accessors) =>
       (last.accessorThrew <=> ~IsAIFeatureEnabled("openai"))

\* a running server where one accessor returns its handle and a route's call
\* to another accessor threw
C4_Witness ==
  /\ phase = "serving"
  /\ ~GetFraudDetectionService.threw
  /\ last.route = "fraud-detection" /\ last.accessorThrew

\* C5: no request to a user-facing route reaches a registry accessor that
\* throws: every engine a route obtains was checked with isAIFeatureEnabled
\* first, so an unavailable engine yields the 503 response.
C5_RoutesCheckBeforeGet ==
  last.route \in UserRoutes => ~last.accessorThrew

\* C6: with the fraud-detection feature not enabled, a fraud-detection
\* request is answered 503 "Service unavailable" without any registry
\* accessor call and without any model call.
C6_FraudDisabledNoEngine ==
  (last.route = "fraud-detection" /\ ~IsAIFeatureEnabled("fraudDetection")) =>
    /\ last.status = 503 /\ last.error = Unavailable
    /\ last.accessors = {} /\ last.engine = "none" /\ last.modelCalls = 0

\* a fraud-detection request answered while the feature is off and the
\* model engine itself is available
C6_Witness ==
  /\ last.route = "fraud-detection" /\ last.status = 503
  /\ ~IsAIFeatureEnabled("fraudDetection") /\ IsAIFeatureEnabled("openai")

\* C7: a health check reports "degraded" exactly when the probe of some
\* enabled engine was unhealthy (false or thrown), and "healthy" otherwise.
C7_DegradedIffUnhealthyProbe ==
  last.route \in {"health", "checkAIServicesHealth"} =>
    /\ last.status \in {"healthy", "degraded"}
    /\ last.status = "degraded"
         <=> \E e \in {"openai", "ocr"} : last.probes[e] \in {"false", "throws"}

\* C8: whenever the model's content is not valid JSON (an absent response
\* included), the parse function returns success = false with rawResponse
\* equal to that content.
C8_NonJsonKeepsRaw ==
  (last.route \in EngineRoutes /\ last.engine = "returned"
     /\ (last.content.t # "string" \/ ~JSONValid(last.content.s))) =>
    /\ ~last.result.success
    /\ "rawResponse" \in DOMAIN last.result
    /\ last.result.rawResponse = last.content

\* C9: a generative operation never propagates an exception to its caller;
\* a failed model call comes back as a result with success = false.
C9_EngineNeverThrows ==
  last.route \in EngineRoutes => last.engine # "threw"

PipelineFailed(resp) ==
  /\ resp.status = 500
  /\ \/ resp.engine # "none"
     \/ resp.error = "OCR failed"

Terminal(resp) ==
  /\ resp.route \in UserRoutes
  /\ resp.status = 200 \/ PipelineFailed(resp)

\* C11: every request that supplies a record reference and reaches a
\* terminal state inserts exactly one analysis record for that reference,
\* with status 'completed' on success and 'failed' on failure.
C11_TerminalStatePersisted ==
  [][(Terminal(last') /\ last'.recordId # NULL)
       => /\ Len(ai_analyses') = Len(ai_analyses) + 1
          /\ ai_analyses'[Len(ai_analyses')].record_id = last'.recordId
          /\ ai_analyses'[Len(ai_analyses')].status =
               IF last'.status = 200 THEN "completed" ELSE "failed"]_vars

\* C12: on every pipeline route (ocr, analyze, fraud-detection, classify,
\* validate) and for every outcome, a request without a record reference
\* leaves the analysis-record store unchanged.
C12_NoReferenceNoInsert ==
  [][(last'.route \in UserRoutes /\ last'.recordId = NULL)
       => ai_analyses' = ai_analyses]_vars

\* a successful analysis without a reference, answered while the table
\* already holds a row: the table still holds exactly that row
C12_Witness ==
  /\ last.route \in EngineRoutes /\ last.recordId = NULL
  /\ last.status = 200 /\ last.stored = NoRow
  /\ Len(ai_analyses) = 1

\* C13: a batch request handles its items strictly sequentially: at most
\* one item's engine call is in flight at any time, and item i+1's call
\* begins only after item i's outcome has been recorded.
C13_BatchSequential ==
  batch.active =>
    /\ Cardinality(batch.inFlight) <= 1
    /\ \A i \in batch.inFlight : Len(batch.results) = i - 1

\* the second file's engine call in flight, the first file's engine result
\* recorded
C13_Witness ==
  /\ batch.active /\ batch.processType \in {"ocr", "analysis"}
  /\ batch.inFlight = {2}
  /\ Len(batch.results) = 1 /\ batch.results[1].outcome = "result"

\* =========================================== the engines' pure methods
\* Confidence scores are held in thousandths (90000 is 90), the rounded
\* figures of a result in hundredths (6667 is 66.67).
Sum(scores) == LET S[i \in 0..Len(scores)] == IF i = 0 THEN 0 ELSE S[i - 1] + scores[i]
               IN  S[Len(scores)]
Least(scores) == CHOOSE m \in {scores[i] : i \in 1..Len(scores)} :
                   \A i \in 1..Len(scores) : m <= scores[i]
Greatest(scores) == CHOOSE m \in {scores[i] : i \in 1..Len(scores)} :
                      \A i \in 1..Len(scores) : m >= scores[i]

\* Math.round(x * 100) / 100 for x = num/den thousandths, in hundredths:
\* the nearest hundredth, a half rounded up
Round2(num, den) == (2 * num + 10 * den) \div (20 * den)

\* (variant: the thresholds taken with <= instead of <)
QualityInclusive(sum, n) ==
  IF sum <= 40 * 1000 * n THEN "poor"
  ELSE IF sum <= 60 * 1000 * n THEN "fair"
  ELSE IF sum <= 80 * 1000 * n THEN "good"
  ELSE "excellent"

\* quality from average = sum / n: 'excellent', then 'good' below 80,
\* 'fair' below 60, 'poor' below 40
Quality(sum, n) ==
  IF sum < 40 * 1000 * n THEN "poor"
  ELSE IF sum < 60 * 1000 * n THEN "fair"
  ELSE IF sum < 80 * 1000 * n THEN "good"
  ELSE "excellent"

\* (variant: the filter keeps a confidence of exactly 60 too)
LowConfidenceInclusive(x) == x <= 60 * 1000

\* .filter(word => word.confidence < 60)
LowConfidence(x) == x < 60 * 1000

\* analyzeConfidence(ocrData), ocrData.words given by its confidences
AnalyzeConfidence(words) ==
  LET scores == IF words.t = "undefined" THEN <<>> ELSE words.v IN
  IF Len(scores) = 0
  THEN [average |-> 0, min |-> 0, max |-> 0, lowConfidenceWords |-> <<>>,
        quality |-> "unknown"]
  ELSE [average |-> Round2(Sum(scores), Len(scores)),
        min |-> Round2(Least(scores), 1),
        max |-> Round2(Greatest(scores), 1),
        lowConfidenceWords |-> SelectSeq(scores, LowConfidence),
        quality |-> Quality(Sum(scores), Len(scores)),
        totalWords |-> Len(scores)]

\* Text as a sequence of characters: a letter, and the white space
\* characters space, newline and tab (all matched by \s and removed by trim)
Chars == {"a", " ", "\n", "\t"}
IsSpace(ch) == ch \in {" ", "\n", "\t"}

\* the end of the white space run that starts at i (i - 1 if none)
RECURSIVE RunEnd(_, _)
RunEnd(s, i) == IF i <= Len(s) /\ IsSpace(s[i]) THEN RunEnd(s, i + 1) ELSE i - 1

\* .replace(/\s+/g, ' ')
RECURSIVE ReplaceRuns(_, _)
ReplaceRuns(s, i) ==
  IF i > Len(s) THEN <<>>
  ELSE IF IsSpace(s[i]) THEN <<" ">> \o ReplaceRuns(s, RunEnd(s, i) + 1)
  ELSE <<s[i]>> \o ReplaceRuns(s, i + 1)

\* the last newline in i..j (0 if none)
RECURSIVE LastNewline(_, _, _)
LastNewline(s, i, j) ==
  IF j < i THEN 0 ELSE IF s[j] = "\n" THEN j ELSE LastNewline(s, i, j - 1)

\* .replace(/\n\s*\n/g, '\n'): \s* is greedy, the match ends at the last
\* newline of the white space that follows the first one
RECURSIVE ReplaceBlankLines(_, _)
ReplaceBlankLines(s, i) ==
  IF i > Len(s) THEN <<>>
  ELSE LET close == LastNewline(s, i + 1, RunEnd(s, i + 1)) IN
       IF s[i] = "\n" /\ close > 0
       THEN <<"\n">> \o ReplaceBlankLines(s, close + 1)
       ELSE <<s[i]>> \o ReplaceBlankLines(s, i + 1)

RECURSIVE TrimEnd(_)
TrimEnd(s) == IF s # <<>> /\ IsSpace(s[Len(s)]) THEN TrimEnd(SubSeq(s, 1, Len(s) - 1)) ELSE s

\* (variant: white space removed at the start only)
TrimStart(s) == SubSeq(s, RunEnd(s, 1) + 1, Len(s))

\* .trim()
Trim(s) == TrimEnd(SubSeq(s, RunEnd(s, 1) + 1, Len(s)))

\* cleanExtractedText(text): '' for a falsy text
CleanExtractedText(text) ==
  IF text.t # "string" \/ text.s = <<>> THEN <<>>
  ELSE Trim(ReplaceBlankLines(ReplaceRuns(text.s, 1), 1))

RawTexts == {Undefined, Null} \cup
            {Str(s) : s \in UNION {[1..n -> Chars] : n \in 0..MaxChars}}

\* The confidences the engine reports, the thresholds and their
\* neighbours among them
Scores == {0, 39996, 40000, 59996, 60000, 70000, 79996, 80000, 90000, 91234, 100000}
Array(v) == [t |-> "array", v |-> v]
WordLists == {Undefined} \cup {Array(v) : v \in UNION {[1..n -> Scores] : n \in 0..MaxWords}}

\* Answers of the model in and out of the shapes the prompts ask for
Answered ==
  Contents \cup
  {Str(s) : s \in
     { <<"{", "fraud_risk_level", ":", "low", ",", "requires_review", ":", "false", "}">>,
       <<"{", "fraud_risk_level", ":", "str", ",", "requires_review", ":", "false", "}">>,
       <<"{", "fraud_risk_level", ":", "high", "}">>,
       <<"{", "event_type", ":", "birth", ",", "priority", ":", "urgent", "}">>,
       <<"{", "event_type", ":", "birth", ",", "priority", ":", "null", "}">>,
       <<"{", "is_valid", ":", "true", "}">>,
       <<"{", "is_valid", ":", "str", "}">>,
       <<"true">> }}

GenerativeOps == {"detectFraud", "classifyRecord", "validateData"}

Invocations == [op : {"analyzeConfidence"}, arg : WordLists]
               \cup [op : {"cleanExtractedText"}, arg : RawTexts]
               \cup [op : GenerativeOps, arg : Answered]

Called(op) == calls[1].pc = "called" /\ calls[1].op = op
Done(op) == calls[1].pc = "done" /\ calls[1].op = op
FnFrame == UNCHANGED <<server, ocrFields, batch, last, ai_analyses>>

AnalyzeConfidenceReturn ==
  /\ Called("analyzeConfidence")
  /\ calls' = [calls EXCEPT ![1] = [pc |-> "done", op |-> @.op, arg |-> @.arg,
                                    result |-> AnalyzeConfidence(@.arg)]]
  /\ FnFrame

CleanExtractedTextReturn ==
  /\ Called("cleanExtractedText")
  /\ calls' = [calls EXCEPT ![1] = [pc |-> "done", op |-> @.op, arg |-> @.arg,
                                    result |-> CleanExtractedText(@.arg),
                                    cleaned |-> FALSE]]
  /\ FnFrame

\* cleanExtractedText called on the text it returned
CleanExtractedTextAgain ==
  /\ Done("cleanExtractedText") /\ ~calls[1].cleaned
  /\ calls' = [calls EXCEPT ![1] = [pc |-> "done", op |-> @.op, arg |-> Str(@.result),
                                    result |-> CleanExtractedText(Str(@.result)),
                                    cleaned |-> TRUE]]
  /\ FnFrame

\* detectFraud / classifyRecord / validateData on an initialized
\* OpenAIService, the model answering with the invocation's content
GenerativeReturn ==
  /\ calls[1].pc = "called" /\ calls[1].op \in GenerativeOps
  /\ LET outcome == [threw |-> FALSE, content |-> calls[1].arg]
         r == CASE calls[1].op = "detectFraud"    -> DetectFraud("client", outcome)
                [] calls[1].op = "classifyRecord" -> ClassifyRecord("client", outcome)
                [] OTHER                          -> ValidateData("client", outcome)
     IN  calls' = [calls EXCEPT ![1] = [pc |-> "done", op |-> @.op, arg |-> @.arg,
                                        result |-> r.result]]
  /\ FnFrame

\* A method is invoked with some argument on a constructed engine.
FnInit ==
  /\ Boot
  /\ env = NoneEnabled
  /\ ai_analyses = <<>>
  /\ \E inv \in Invocations :
       calls = [c \in 1..MaxCalls |->
                  IF c = 1 THEN [pc |-> "called", op |-> inv.op, arg |-> inv.arg]
                  ELSE NotCalled]

FnNext ==
  \/ AnalyzeConfidenceReturn
  \/ CleanExtractedTextReturn
  \/ CleanExtractedTextAgain
  \/ GenerativeReturn

SpecFn == FnInit /\ [][FnNext]_vars

\* ----------------------------------------------------- recognition language
Overlapped(c, d) == d \in calls[c].peers \/ c \in calls[d].peers
Recognized(c) == calls[c].pc = "done" /\ calls[c].result.success

\* C14: when two recognition requests with different languages are in
\* flight concurrently, each request's text is recognized with its own
\* requested language, whatever the interleaving of their steps.
C14_OwnLanguageUnderConcurrency ==
  \A c, d \in Callers :
    (/\ c # d /\ Recognized(c) /\ Recognized(d) /\ Overlapped(c, d)
     /\ calls[c].result.language # calls[d].result.language)
      => calls[c].used = calls[c].result.language

\* C21: extractTextFromImage called with a language different from the
\* engine's current language reloads the model for that language and updates
\* the current language to it: when such a call returns its text, no other
\* call having run meanwhile, the current language is the language the
\* worker has loaded.
C21_ReloadUpdatesCurrentLanguage ==
  [][\A c \in Callers :
       (/\ calls[c].pc = "recognize" /\ calls'[c].pc = "done"
        /\ calls'[c].result.success /\ calls'[c].peers = {}
        /\ calls'[c].result.language # defaultLanguage)
         => defaultLanguage' = workerLanguage']_vars

\* C22: after any sequence of extractTextFromImage and changeLanguage
\* calls none of which overlaps another, every successful result reports as
\* its language the language the worker had loaded when its recognition
\* ran: so a call without a language option after a call with 'amh'.
C22_ReportedLanguageIsLoaded ==
  \A c \in Callers :
    (Recognized(c) /\ calls[c].peers = {})
      => calls[c].used = calls[c].result.language

\* C23: every invocation of extractTextFromImage returns a result (it
\* never throws, a missing file and an uninitialized engine included),
\* and the result is either a success with text and no error, or a failure
\* with an error and no text.
C23_SuccessXorError ==
  \A c \in Callers :
    calls[c].pc = "done" =>
      /\ "result" \in DOMAIN calls[c]
      /\ LET r == calls[c].result
         IN  IF r.success
             THEN "text" \in DOMAIN r /\ "error" \notin DOMAIN r
             ELSE /\ "error" \in DOMAIN r /\ r.error # NULL
                  /\ "text" \notin DOMAIN r

\* one invocation returned its text and, the engine cleaned up since, the
\* next was refused as not initialized
C23_Witness ==
  \E c, d \in Callers :
    /\ calls[c].pc = "done" /\ ~calls[c].result.success
    /\ calls[c].result.error = "OCR service not initialized"
    /\ Recognized(d)

\* ------------------------------------------------------------------ cleanup
Released == [worker |-> NULL, isInitialized |-> FALSE]

\* C29 (as stated): cleanup never throws, every call leaves the engine
\* with no worker and not initialized, and a call on a released engine
\* changes nothing.
C29_CleanupAlwaysReleases ==
  last.route = "cleanup" =>
    /\ ~last.threw
    /\ last.after = Released
    /\ last.before.worker = NULL => last.after = last.before

\* C29 (amended): cleanup never throws; a call whose worker.terminate()
\* succeeds leaves the engine with no worker and not initialized; a call on
\* a released engine calls nothing and changes nothing; a call whose
\* worker.terminate() fails leaves the engine as it was.
C29_CleanupIdempotent ==
  last.route = "cleanup" =>
    /\ ~last.threw
    /\ last.terminate = "ok" => last.after = Released
    /\ last.before.worker = NULL =>
         last.terminate = "notCalled" /\ last.after = last.before
    /\ last.terminate = "terminateFails" => last.after = last.before

\* cleanup called again on the engine an earlier cleanup released
C29_Witness ==
  /\ last.route = "cleanup" /\ last.before = Released
  /\ worker = NULL /\ ~isInitialized

\* C24: extractTextFromRegions over R regions returns one result per
\* region, in region order; a recognition failure in one region does not
\* keep the other regions from being processed and reported.
C24_OneResultPerRegion ==
  (last.route = "ocr" /\ last.regions.k = "list" /\ last.engine = "returned") =>
    /\ "results" \in DOMAIN last.result
    /\ Len(last.result.results) = last.regions.n
    /\ \A r \in 1..last.regions.n : last.result.results[r].region = r
    /\ last.recognizeCalls = last.regions.n

\* ------------------------------------------------------------ health checks
Aggregated == calls[1].pc = "done" /\ calls[1].op = "checkAIServicesHealth"

\* what a health report says of an engine the registry holds: it was
\* probed and is reported, as unhealthy (the aggregate degraded) when its
\* probe threw
Isolated(h, service, engine) ==
  service # NULL =>
    /\ h.probes[engine] # "none"
    /\ h.services[engine] \in {"healthy", "unhealthy"}
    /\ h.probes[engine] = "throws" =>
         h.services[engine] = "unhealthy" /\ h.status = "degraded"

\* C25: a health check probes every enabled engine even when another
\* engine's probe throws: the exception is recorded as that engine being
\* unhealthy, the other enabled engines are still probed and reported, and
\* the aggregate is returned.
C25_ProbesIsolated ==
  /\ Aggregated =>
       /\ calls[1].result.status \in {"healthy", "degraded"}
       /\ Isolated(calls[1].result, openaiService, "openai")
       /\ Isolated(calls[1].result, ocrService, "ocr")
  /\ last.route = "health" =>
       /\ last.status \in {"healthy", "degraded"}
       /\ Isolated(last, openaiService, "openai")
       /\ Isolated(last, ocrService, "ocr")

\* the model engine's probe threw and the recognition engine was probed
\* and found healthy all the same
C25_Witness ==
  /\ Aggregated
  /\ calls[1].result.probes = [openai |-> "throws", ocr |-> "true"]
  /\ calls[1].result.services.openai = "unhealthy"
  /\ calls[1].result.services.ocr = "healthy"

\* C26: each engine's own healthCheck returns a boolean and never throws:
\* the recognition engine's is true only if the engine is initialized and
\* the test recognition succeeds, the generative engine's is true exactly
\* when the test model call returns a non-empty response, and any error
\* during the probe yields false.
C26_HealthCheckBoolean ==
  /\ last.route = "OCRService.healthCheck" =>
       /\ last.result \in BOOLEAN
       /\ last.result => (last.isInitialized /\ last.recognize = "ok")
       /\ last.recognize = "recognizeFails" => ~last.result
  /\ (calls[2].pc = "done" /\ calls[2].op = "OpenAIService.healthCheck") =>
       LET outcome == calls[2].outcome
       IN  /\ calls[2].result \in BOOLEAN
           /\ calls[2].result <=>
                (/\ ~outcome.threw /\ outcome.content.t = "string"
                 /\ Len(outcome.content.s) > 0)
           /\ outcome.threw => ~calls[2].result

\* the recognition engine probed after its worker was released, and the
\* generative engine probed with a model call that was rejected
C26_Witness ==
  /\ last.route = "OCRService.healthCheck" /\ ~last.isInitialized /\ ~last.result
  /\ calls[2].pc = "done" /\ calls[2].op = "OpenAIService.healthCheck"
  /\ calls[2].outcome.threw /\ ~calls[2].result

\* C27: checkAIServicesHealth and GET /health compute the same aggregate
\* status and the same status of the recognition and model engines from
\* the same engine states (enabled or not, probe true, false or throwing).
C27_AggregatorsAgree ==
  (Aggregated /\ last.route = "health" /\ calls[1].result.probes = last.probes) =>
    /\ calls[1].result.status = last.status
    /\ calls[1].result.services.openai = last.services.openai
    /\ calls[1].result.services.ocr = last.services.ocr

Referenced == {i \in 1..Len(ai_analyses) : ai_analyses[i].record_id = last.recordId}
Newer(t) == Cardinality({i \in Referenced : ai_analyses[i].created_at > t})
NotOlder(t) == Cardinality({i \in Referenced : ai_analyses[i].created_at >= t})

\* C15: history retrieval for a record reference returns only that
\* reference's records, most recent first, restricted to the window given
\* by limit and offset, and reports as total the number of all records for
\* that reference whatever limit and offset are.
C15_HistoryWindow ==
  last.route = "history" =>
    LET page   == last.analyses
        total  == Cardinality(Referenced)
        limit  == last.pagination.limit
        offset == last.pagination.offset
        rest   == IF total > offset THEN total - offset ELSE 0
    IN  /\ last.pagination.total = total
        /\ Len(page) = IF limit < rest THEN limit ELSE rest
        /\ \A k \in 1..Len(page) :
             /\ \E i \in Referenced : ai_analyses[i] = page[k]
             /\ Newer(page[k].created_at) < offset + k
             /\ offset + k <= NotOlder(page[k].created_at)
        /\ \A k \in 1..(Len(page) - 1) : page[k].created_at >= page[k + 1].created_at

\* the second page of one row out of two for the reference, the table
\* holding another reference's row as well
C15_Witness ==
  /\ last.route = "history" /\ last.pagination.total = 2
  /\ last.pagination.limit = 1 /\ last.pagination.offset = 1
  /\ Len(last.analyses) = 1
  /\ \E i \in Referenced : ai_analyses[i].created_at > last.analyses[1].created_at
  /\ \E i \in 1..Len(ai_analyses) : ai_analyses[i].record_id # last.recordId

\* --------------------------------------------------------- confidence stats
\* C17 as stated: for a non-empty list of word confidence scores the
\* average equals the arithmetic mean of the list, min and max equal the
\* actual extremes, and the quality label is excellent iff average >= 80,
\* good iff 60 <= average < 80, fair iff 40 <= average < 60, poor iff
\* average < 40; for an empty list the quality is 'unknown' and average,
\* min and max are 0.
C17_MeanAndExtremesExact ==
  Done("analyzeConfidence") =>
    LET scores == IF calls[1].arg.t = "undefined" THEN <<>> ELSE calls[1].arg.v
        n == Len(scores)
        r == calls[1].result
    IN  IF n = 0
        THEN r.quality = "unknown" /\ r.average = 0 /\ r.min = 0 /\ r.max = 0
        ELSE /\ r.average * 10 * n = Sum(scores)
             /\ r.min * 10 = Least(scores)
             /\ r.max * 10 = Greatest(scores)
             /\ r.quality = "excellent" <=> r.average >= 8000
             /\ r.quality = "good" <=> (6000 <= r.average /\ r.average < 8000)
             /\ r.quality = "fair" <=> (4000 <= r.average /\ r.average < 6000)
             /\ r.quality = "poor" <=> r.average < 4000

\* C17 amended: for a non-empty list, average, min and max are the
\* arithmetic mean and the extremes rounded to two decimals (a half
\* rounded up), and the quality label is decided by the unrounded mean:
\* excellent iff mean >= 80, good iff 60 <= mean < 80, fair iff
\* 40 <= mean < 60, poor iff mean < 40; for an empty list the quality is
\* 'unknown' and average, min and max are 0.
C17_RoundedMeanAndExtremes ==
  Done("analyzeConfidence") =>
    LET scores == IF calls[1].arg.t = "undefined" THEN <<>> ELSE calls[1].arg.v
        n == Len(scores)
        r == calls[1].result
        sum == Sum(scores)
        nearest(h, num, den) ==
          /\ 2 * 10 * den * h <= 2 * num + 10 * den
          /\ 2 * num + 10 * den < 2 * 10 * den * (h + 1)
    IN  IF n = 0
        THEN r.quality = "unknown" /\ r.average = 0 /\ r.min = 0 /\ r.max = 0
        ELSE /\ nearest(r.average, sum, n)
             /\ nearest(r.min, Least(scores), 1)
             /\ nearest(r.max, Greatest(scores), 1)
             /\ \A i \in 1..n : Least(scores) <= scores[i] /\ scores[i] <= Greatest(scores)
             /\ r.quality = "excellent" <=> sum >= 80000 * n
             /\ r.quality = "good" <=> (60000 * n <= sum /\ sum < 80000 * n)
             /\ r.quality = "fair" <=> (40000 * n <= sum /\ sum < 60000 * n)
             /\ r.quality = "poor" <=> sum < 40000 * n

\* a mean of exactly 80 from unequal scores: 'excellent', average 80.00
C17_Witness ==
  /\ Done("analyzeConfidence") /\ calls[1].arg = Array(<<60000, 100000>>)
  /\ calls[1].result.quality = "excellent" /\ calls[1].result.average = 8000

\* the words of the analysed list below 60, and the list 90, 40, 70
Below60 ==
  LET scores == IF calls[1].arg.t = "undefined" THEN <<>> ELSE calls[1].arg.v
  IN  {i \in 1..Len(scores) : scores[i] < 60000}
Scenario == Done("analyzeConfidence") /\ calls[1].arg = Array(<<90000, 40000, 70000>>)

\* the low-confidence entries are exactly the words below 60
ExactlyBelow60 ==
  Done("analyzeConfidence") =>
    /\ Len(calls[1].result.lowConfidenceWords) = Cardinality(Below60)
    /\ \A j \in 1..Len(calls[1].result.lowConfidenceWords) :
         calls[1].result.lowConfidenceWords[j] < 60000

\* C30 (as stated): for the confidence list 90, 40, 70 analyzeConfidence
\* returns average 66.67, quality 'fair' and as low-confidence entries the
\* 40 entry alone; low-confidence entries are exactly the words below 60.
C30_ScenarioFair ==
  /\ ExactlyBelow60
  /\ Scenario =>
       /\ calls[1].result.average = 6667
       /\ calls[1].result.quality = "fair"
       /\ calls[1].result.lowConfidenceWords = <<40000>>

\* C30 (amended): for the confidence list 90, 40, 70 analyzeConfidence
\* returns average 66.67, quality 'good' (60 <= 66.67 < 80) and as
\* low-confidence entries the 40 entry alone; low-confidence entries are
\* exactly the words below 60.
C30_ScenarioGood ==
  /\ ExactlyBelow60
  /\ Scenario =>
       /\ calls[1].result.average = 6667
       /\ calls[1].result.quality = "good"
       /\ calls[1].result.lowConfidenceWords = <<40000>>

\* the list 90, 40, 70 analysed
C30_Witness ==
  Scenario /\ calls[1].result.totalWords = 3 /\ calls[1].result.min = 4000

\* ------------------------------------------------------------ text cleaning
\* C18: cleanExtractedText is idempotent (cleaning a cleaned text returns
\* it unchanged), and its output has no leading or trailing whitespace and
\* no run of more than one whitespace character.
C18_CleanIdempotent ==
  Done("cleanExtractedText") =>
    LET out == calls[1].result IN
    /\ out # <<>> => ~IsSpace(out[1]) /\ ~IsSpace(out[Len(out)])
    /\ \A i \in 1..(Len(out) - 1) : ~(IsSpace(out[i]) /\ IsSpace(out[i + 1]))
    /\ calls[1].cleaned => out = calls[1].arg.s

\* a text with a blank line and outer white space, cleaned and cleaned again
C18_Witness ==
  /\ Done("cleanExtractedText") /\ calls[1].cleaned
  /\ calls[1].result = <<"a", " ", "a">>

\* ------------------------------------------------- recognition, then analysis
\* C19: in single-document analysis of an image, the generative engine is
\* invoked only after recognition has completed successfully; if
\* recognition fails the generative engine is never invoked for that
\* request.
C19_AnalysisOnlyAfterRecognition ==
  last.route = "analyze" =>
    /\ last.ocr = "failed" =>
         /\ last.engine = "none" /\ last.modelCalls = 0
         /\ last.status = 500 /\ last.error = "OCR failed"
    /\ (last.engine # "none" /\ "ocr" \in last.accessors) =>
         last.ocr = "ok" /\ last.recognizeCalls = 1

\* an image recognized and then analysed by the model
C19_Witness ==
  /\ last.route = "analyze" /\ last.ocr = "ok"
  /\ last.engine = "returned" /\ last.modelCalls = 1 /\ last.status = 200

\* ----------------------------------------------------------------- retries
\* the entries pushed so far by the batch in progress or answered last
Entries ==
  IF batch.active THEN batch.results
  ELSE IF last.route = "batch-process" THEN last.results ELSE <<>>

\* C28: nothing is retried: a single-document request makes at most one
\* model call and at most one recognition call (one per region when
\* regions are given), a batch item likewise, and a call that failed is
\* reported as a failure: an error status for the single request, an
\* entry with success false for the batch item.
C28_NoRetry ==
  /\ last.route \in UserRoutes =>
       /\ last.modelCalls <= 1
       /\ last.recognizeCalls <= (IF last.regions.k = "list" THEN last.regions.n ELSE 1)
       /\ last.engine = "threw" => last.status = 500
       /\ (last.route = "ocr" /\ last.engine = "returned" /\ ~last.result.success)
            => last.status = 500
  /\ \A i \in 1..Len(Entries) :
       /\ Entries[i].modelCalls <= 1
       /\ Entries[i].recognizeCalls <= 1
       /\ Entries[i].outcome = "caught" => ~Entries[i].success

\* a batch answered whose first file's model call was rejected, once
C28_Witness ==
  /\ last.route = "batch-process" /\ last.status = 200 /\ Len(last.results) = 2
  /\ last.results[1].outcome = "caught" /\ last.results[1].modelCalls = 1
  /\ ~last.results[1].success

\* ------------------------------------------------------------ result shapes
\* the value token of the top-level member `key` of a parsed object
Depth(src, i) == Cardinality({j \in 1..(i - 1) : src[j] = "{"})
                 - Cardinality({j \in 1..(i - 1) : src[j] = "}"})
Member(v, key) ==
  IF v.t # "object" THEN "absent"
  ELSE LET at == {i \in 1..(Len(v.src) - 2) :
                    v.src[i] = key /\ v.src[i + 1] = ":" /\ Depth(v.src, i) = 1}
       IN  IF at = {} THEN "absent"
           ELSE v.src[2 + CHOOSE i \in at : \A j \in at : j <= i]

ExpectedShape(op, data) ==
  CASE op = "detectFraud" ->
         /\ Member(data, "fraud_risk_level") \in {"low", "medium", "high"}
         /\ Member(data, "requires_review") \in {"true", "false"}
    [] op = "classifyRecord" ->
         /\ Member(data, "event_type") \in {"birth", "death", "marriage", "divorce", "adoption"}
         /\ Member(data, "priority") \in {"low", "medium", "high", "urgent"}
    [] OTHER ->
         Member(data, "is_valid") \in {"true", "false"}

\* C20: when a generative operation returns success=true its data has the
\* shape its consumers expect (detectFraud: fraud_risk_level in
\* {low, medium, high} and a boolean requires_review; classifyRecord:
\* event_type in {birth, death, marriage, divorce, adoption} and priority in
\* {low, medium, high, urgent}; validateData: a boolean is_valid); a model
\* answer that is valid JSON of the wrong shape is not reported as a success.
C20_SuccessHasExpectedShape ==
  (calls[1].pc = "done" /\ calls[1].op \in GenerativeOps /\ calls[1].result.success)
    => ExpectedShape(calls[1].op, calls[1].result.data)
====
